---- MODULE Spec2Model ----
(***************************************************************************)
(* A model of brainsprite.py: the colormap deduplication helper exercised  *)
(* by tests/test_brainsprite.py (_deduplicate_cmap) and the output helpers *)
(* of brainsprite.py (_output_sprite, _output_sprite_bg, _output_cm,       *)
(* _get_text_data, _view_html).                                            *)
(*                                                                         *)
(* The body of _deduplicate_cmap is not part of the source tree: only its  *)
(* test is.  Its sampling of a named (continuous) colormap and its         *)
(* argument check follow the written specification; what it does with a    *)
(* custom colormap object and how duplicates are detected follow the test. *)
(*                                                                         *)
(* Channel values are exact rationals <<numerator, denominator>> in lowest *)
(* terms, so that "duplicate" is exact equality of all four channels.      *)
(***************************************************************************)
EXTENDS Integers, Sequences, FiniteSets

VARIABLES source_colormap, target_size, allow_annotation, globals, last, args, ret, files

\* the arguments a caller holds for _deduplicate_cmap
inputs == <<source_colormap, target_size, allow_annotation>>

vars == <<source_colormap, target_size, allow_annotation, globals, last, args, ret, files>>

----------------------------------------------------------------------------
(* Bounds of the model *)

\* longest list of anchor colours of a continuous colormap
MaxAnchors == 2
\* largest number of native slots of a discrete colormap
MaxSlots == 4
\* largest requested n_colors
MaxN == 4

----------------------------------------------------------------------------
(* Colours *)

RECURSIVE GCD(_, _)
GCD(a, b) == IF b = 0 THEN a ELSE GCD(b, a % b)

\* the rational n/d (d > 0, n >= 0) in lowest terms
Frac(n, d) == LET g == GCD(n, d) IN <<n \div g, d \div g>>

RGBA(r, g, b, a) == <<Frac(r, 1), Frac(g, 1), Frac(b, 1), Frac(a, 1)>>

Black == RGBA(0, 0, 0, 1)
White == RGBA(1, 1, 1, 1)
Clear == RGBA(0, 0, 0, 0)

Colours == {Black, White, Clear}

SeqsOf(S, lo, hi) == UNION {[1..k -> S] : k \in lo..hi}

\* a named colormap: a continuous map from [0,1] to colours, linear between
\* its anchor colours, which sit at j/(m-1), j = 0..m-1
ContinuousCmaps == {[kind |-> "continuous", colours |-> s] : s \in SeqsOf(Colours, 2, MaxAnchors)}

\* a custom colormap object with a fixed number N of slots
DiscreteCmaps == {[kind |-> "discrete", colours |-> s] : s \in SeqsOf(Colours, 1, MaxSlots)}

SourceCmaps == ContinuousCmaps \cup DiscreteCmaps

TargetSizes == -1..MaxN

\* the colormap of the test: from_list('Custom cmap', [black, white, black, white], 4)
cmap_custom == [kind |-> "discrete", colours |-> <<Black, White, Black, White>>]

NativeSize(cmap) == Len(cmap.colours)

----------------------------------------------------------------------------
(* _deduplicate_cmap(cmap, n_colors, annotate) *)

\* lo + (hi - lo) * f / d for channel values lo, hi and 0 <= f <= d
Interp(lo, hi, f, d) ==
    Frac(lo[1] * hi[2] * d + (hi[1] * lo[2] - lo[1] * hi[2]) * f, lo[2] * hi[2] * d)

\* the colour of anchors A at the point i/(n-1) of [0,1] (at 0 when n = 1)
EntryAt(A, i, n) ==
    LET m == Len(A) - 1
        d == IF n = 1 THEN 1 ELSE n - 1
        t == i * m
        j == IF t \div d >= m THEN m - 1 ELSE t \div d
        f == t - j * d
    IN  [c \in 1..4 |-> Interp(A[j + 1][c], A[j + 2][c], f, d)]

\* a continuous colormap evaluated at n evenly spaced points of its domain
SampleContinuous(cmap, n) ==
    [i \in 1..n |-> EntryAt(cmap.colours, i - 1, n)]

RECURSIVE Collapse(_)
Collapse(s) ==
    IF s = <<>> THEN <<>>
    ELSE LET front == SubSeq(s, 1, Len(s) - 1)
             e == s[Len(s)]
         IN  IF \E j \in 1..Len(front) : front[j] = e
             THEN Collapse(front)
             ELSE Append(Collapse(front), e)

\* bug: repeated colours are merged into their first occurrence
SampleDiscreteCollapsed(cmap, n) ==
    Collapse(cmap.colours)

\* a custom colormap object asked for its native number of slots gives its
\* native entries; asked for fewer it still comes back with all its slots:
\* the test asks for n_colors = 2 of a 4-slot colormap, asserts
\* cmap.N == cmap_custom.N and finds the annotation turned off "because it
\* is not possible to deduplicate this map", the map of repeated colours
SampleDiscrete(cmap, n) ==
    IF n = NativeSize(cmap) THEN cmap.colours
    ELSE [i \in 1..NativeSize(cmap) |-> cmap.colours[i]]

Sample(cmap, n) ==
    IF cmap.kind = "continuous" THEN SampleContinuous(cmap, n)
    ELSE SampleDiscrete(cmap, n)

\* cmaplist.count(e)
Count(cmaplist, e) == Cardinality({j \in 1..Len(cmaplist) : cmaplist[j] = e})

\* bug: only neighbouring slots are compared
NoDuplicatesAdjacent(cmaplist) ==
    \A i \in 1..(Len(cmaplist) - 1) : cmaplist[i] # cmaplist[i + 1]

\* bug: the alpha channel is left out of the comparison
NoDuplicatesRGB(cmaplist) ==
    \A i, j \in 1..Len(cmaplist) :
        i # j => SubSeq(cmaplist[i], 1, 3) # SubSeq(cmaplist[j], 1, 3)

\* mask = [cmaplist.count(cmap(i)) == 1 for i in range(cmap.N)]; np.min(mask)
NoDuplicates(cmaplist) ==
    \A i \in 1..Len(cmaplist) : Count(cmaplist, cmaplist[i]) = 1

\* bug: zero passes the check of n_colors
ValidArgumentZero(cmap, n) ==
    /\ n >= 0
    /\ cmap.kind = "discrete" => n <= NativeSize(cmap)

\* n_colors is positive and no larger than the slots of a discrete source
ValidArgument(cmap, n) ==
    /\ n > 0
    /\ cmap.kind = "discrete" => n <= NativeSize(cmap)

InvalidArgument == [status |-> "InvalidArgument"]

Deduplicate(cmap, n, annotate) ==
    IF ~ValidArgument(cmap, n) THEN InvalidArgument
    ELSE LET palette == Sample(cmap, n)
         IN  [status |-> "ok",
              palette |-> palette,
              annotation_enabled |-> IF NoDuplicates(palette) THEN annotate ELSE FALSE]

CallDeduplicate ==
    /\ last' = "_deduplicate_cmap"
    /\ args' = [n_colors |-> target_size, annotate |-> allow_annotation]
    /\ ret' = Deduplicate(source_colormap, target_size, allow_annotation)
    /\ UNCHANGED <<inputs, globals, files>>

----------------------------------------------------------------------------
(* The functions of brainsprite.py, statement by statement.  A call's      *)
(* outcome is a record: err is NoError or the exception raised, value what *)
(* was returned, files the files on disk afterwards.  A name is looked up  *)
(* when the statement that reads it runs; the callee of a call is looked   *)
(* up before its arguments.  globals is the set of names bound in the      *)
(* namespace the functions run in.                                         *)

\* the names the statements of the file bind when each is executed: the
\* imports (lines 10-31) and the defs of lines 33-118; the def of
\* sprite_data (line 121) is rejected and binds nothing
ModuleGlobals ==
    {"warnings", "np", "os", "encodebytes", "json", "nb", "numbers", "cm",
     "mpl_cm", "colors", "_safe_get_data", "fast_abs_percentile", "plt",
     "imsave", "_load_anat", "_get_colorbar_and_data_ranges",
     "load_mni152_template", "HTMLDocument", "check_niimg_3d", "image",
     "BytesIO", "StringIO", "find_xyz_cut_coords",
     "_get_text_data", "_output_sprite", "_output_sprite_bg", "_output_cm",
     "_view_html"}

Bound(name) == name \in globals

NoError == [type |-> "none"]
NameError(name) == [type |-> "NameError", name |-> name]
UnboundLocalError(name) == [type |-> "UnboundLocalError", name |-> name]
SyntaxError(what) == [type |-> "SyntaxError", name |-> what]

\* the value None and a str value
None == [kind |-> "None"]
Str(text) == [kind |-> "str", text |-> text]

Nothing == [kind |-> "nothing"]

Returned(v, fs) == [err |-> NoError, value |-> v, files |-> fs]
Raised(e, fs) == [err |-> e, value |-> Nothing, files |-> fs]

\* _save_sprite / _save_cm writing the picture img as png into a BytesIO
PngBuffer(img) == [kind |-> "png", of |-> img]

\* _save_sprite / _save_cm writing a png to the file called path
SaveToFile(path, fs) == fs \cup {path}

\* _bytesIO_to_base64: the base64 text of the buffer's bytes
bytesIO_to_base64(buffer) == [kind |-> "base64", of |-> buffer]

EmptyString == Str("")

\* line 36 evaluates os.path.join, then os.path.dirname(__file__), then
\* datas_name: __file__ is bound only in an imported module, and datas_name
\* nowhere (the parameter is data_name)
get_text_data(data_name, fs) ==
    IF ~Bound("_get_text_data") THEN Raised(NameError("_get_text_data"), fs)
    ELSE IF ~Bound("os") THEN Raised(NameError("os"), fs)
    ELSE IF ~Bound("__file__") THEN Raised(NameError("__file__"), fs)
    ELSE Raised(NameError("datas_name"), fs)

\* line 49 and line 53 call _save_sprite, a name the module does not bind;
\* were it bound, the else branch would pass stat_map_sprite, which only the
\* if branch assigns
output_sprite(path, fs) ==
    IF ~Bound("_output_sprite") THEN Raised(NameError("_output_sprite"), fs)
    ELSE IF path = None
    THEN IF ~Bound("_save_sprite") THEN Raised(NameError("_save_sprite"), fs)
         ELSE IF ~Bound("_bytesIO_to_base64")
              THEN Raised(NameError("_bytesIO_to_base64"), fs)
              ELSE Returned(bytesIO_to_base64(PngBuffer("stat_map")), fs)
    ELSE IF ~Bound("_save_sprite") THEN Raised(NameError("_save_sprite"), fs)
         ELSE Raised(UnboundLocalError("stat_map_sprite"), fs)

\* line 65 and line 69 call _save_sprite; were it bound, the if branch
\* would go on to _bytesIO_to_base64(bg_sprite), bg_sprite bound nowhere
output_sprite_bg(path, fs) ==
    IF ~Bound("_output_sprite_bg") THEN Raised(NameError("_output_sprite_bg"), fs)
    ELSE IF path = None
    THEN IF ~Bound("_save_sprite") THEN Raised(NameError("_save_sprite"), fs)
         ELSE IF ~Bound("_bytesIO_to_base64")
              THEN Raised(NameError("_bytesIO_to_base64"), fs)
              ELSE Raised(NameError("bg_sprite"), fs)
    ELSE IF ~Bound("_save_sprite") THEN Raised(NameError("_save_sprite"), fs)
         ELSE Returned(EmptyString, SaveToFile(path, fs))

\* line 80 and line 83 call _save_cm, a name the module does not bind; were
\* it bound, the else branch would pass stat_map_cm, which only the if
\* branch assigns
output_cm(path, fs) ==
    IF ~Bound("_output_cm") THEN Raised(NameError("_output_cm"), fs)
    ELSE IF path = None
    THEN IF ~Bound("_save_cm") THEN Raised(NameError("_save_cm"), fs)
         ELSE IF ~Bound("_bytesIO_to_base64")
              THEN Raised(NameError("_bytesIO_to_base64"), fs)
              ELSE Returned(bytesIO_to_base64(PngBuffer("colormap")), fs)
    ELSE IF ~Bound("_save_cm") THEN Raised(NameError("_save_cm"), fs)
         ELSE Raised(UnboundLocalError("stat_map_cm"), fs)

\* line 94 calls _get_text_data, whose exception ends the call; line 95
\* would read view_html although the snippet is bound to html_view
view_html(sprite, sprite_bg, cm, fs) ==
    LET text == get_text_data(Str("snippet_view.html"), fs)
    IN  IF ~Bound("_view_html") THEN Raised(NameError("_view_html"), fs)
        ELSE IF text.err # NoError THEN Raised(text.err, text.files)
        ELSE Raised(NameError("view_html"), text.files)

DuplicateArgument == SyntaxError("duplicate argument 'black_bg' in function definition")

\* the def of sprite_data names the parameter black_bg twice (lines
\* 138-139) and is rejected, so the name sprite_data is never bound and a
\* call of it fails on the lookup; its first statement (line 251) would
\* call _mask_stat_map, which the file does not bind either
sprite_data(sprite, sprite_bg, cm, fs) ==
    IF ~Bound("sprite_data") THEN Raised(NameError("sprite_data"), fs)
    ELSE Raised(NameError("_mask_stat_map"), fs)

SpritePaths == {None, Str("sprite.png")}
SpriteBgPaths == {None, Str("sprite_bg.png")}
CmPaths == {None, Str("colormap.png")}
TextNames == {Str("snippet_view.html"), Str("snippet_view.js")}

\* import brainsprite: the file is compiled as a whole, the def of
\* sprite_data is rejected, no statement runs and no name is bound
ImportModule ==
    /\ last' = "import brainsprite"
    /\ args' = [none |-> TRUE]
    /\ ret' = [err |-> DuplicateArgument, value |-> Nothing]
    /\ UNCHANGED <<inputs, globals, files>>

\* the top-level statements of the file executed in order, each on its
\* own: the imports and the defs of lines 33-118 bind their names, the def
\* of sprite_data raises SyntaxError and binds nothing
ExecStatements ==
    /\ last' = "exec statements"
    /\ args' = [none |-> TRUE]
    /\ ret' = [err |-> DuplicateArgument, value |-> Nothing]
    /\ globals' = globals \cup ModuleGlobals
    /\ UNCHANGED <<inputs, files>>

\* calls of the functions by name in the namespace globals

CallGetTextData ==
    \E data_name \in TextNames :
        LET out == get_text_data(data_name, files)
        IN  /\ last' = "_get_text_data"
            /\ args' = [data_name |-> data_name]
            /\ ret' = [err |-> out.err, value |-> out.value]
            /\ files' = out.files
            /\ UNCHANGED <<inputs, globals>>

CallOutputSprite ==
    \E path \in SpritePaths :
        LET out == output_sprite(path, files)
        IN  /\ last' = "_output_sprite"
            /\ args' = [path |-> path]
            /\ ret' = [err |-> out.err, value |-> out.value]
            /\ files' = out.files
            /\ UNCHANGED <<inputs, globals>>

CallOutputSpriteBg ==
    \E path \in SpriteBgPaths :
        LET out == output_sprite_bg(path, files)
        IN  /\ last' = "_output_sprite_bg"
            /\ args' = [path |-> path]
            /\ ret' = [err |-> out.err, value |-> out.value]
            /\ files' = out.files
            /\ UNCHANGED <<inputs, globals>>

CallOutputCm ==
    \E path \in CmPaths :
        LET out == output_cm(path, files)
        IN  /\ last' = "_output_cm"
            /\ args' = [path |-> path]
            /\ ret' = [err |-> out.err, value |-> out.value]
            /\ files' = out.files
            /\ UNCHANGED <<inputs, globals>>

CallViewHtml ==
    \E sprite \in SpritePaths, sprite_bg \in SpriteBgPaths, cm \in CmPaths :
        LET out == view_html(sprite, sprite_bg, cm, files)
        IN  /\ last' = "_view_html"
            /\ args' = [output_sprite |-> sprite, output_sprite_bg |-> sprite_bg,
                        output_cm |-> cm]
            /\ ret' = [err |-> out.err, value |-> out.value]
            /\ files' = out.files
            /\ UNCHANGED <<inputs, globals>>

CallSpriteData ==
    \E sprite \in SpritePaths, sprite_bg \in SpriteBgPaths, cm \in CmPaths :
        LET out == sprite_data(sprite, sprite_bg, cm, files)
        IN  /\ last' = "sprite_data"
            /\ args' = [output_sprite |-> sprite, output_sprite_bg |-> sprite_bg,
                        output_cm |-> cm]
            /\ ret' = [err |-> out.err, value |-> out.value]
            /\ files' = out.files
            /\ UNCHANGED <<inputs, globals>>

----------------------------------------------------------------------------

Init ==
    /\ source_colormap \in SourceCmaps
    /\ target_size \in TargetSizes
    /\ allow_annotation \in BOOLEAN
    /\ last = "start"
    /\ args = [none |-> TRUE]
    /\ ret = [err |-> NoError, value |-> Nothing]
    /\ files = {}
    /\ globals = {}

Next ==
    \/ CallDeduplicate
    \/ ImportModule
    \/ ExecStatements
    \/ CallGetTextData
    \/ CallOutputSprite
    \/ CallOutputSpriteBg
    \/ CallOutputCm
    \/ CallViewHtml
    \/ CallSpriteData

Spec == Init /\ [][Next]_vars

----------------------------------------------------------------------------
(* Properties *)

Called == last = "_deduplicate_cmap"
Ok == Called /\ ret.status = "ok"
IsDiscrete == source_colormap.kind = "discrete"
IsContinuous == source_colormap.kind = "continuous"

\* two entries with all four channel values equal
HasDuplicate(p) ==
    \E i, j \in 1..Len(p) : i < j /\ \A c \in 1..4 : p[i][c] = p[j][c]

PairwiseDistinct(p) ==
    \A i, j \in 1..Len(p) : i # j => \E c \in 1..4 : p[i][c] # p[j][c]

\* C1: every call that returns, returns a palette of exactly target_size
\* entries, with or without duplicates.
C1_PaletteHasRequestedSize ==
    Ok => Len(ret.palette) = target_size

\* C2: when the sampled palette holds two equal entries the call returns
\* normally with annotation_enabled = FALSE, whatever the caller asked for;
\* annotation_enabled is TRUE only for pairwise distinct entries.
C2_DuplicatesDisableAnnotation ==
    /\ (Called /\ ValidArgument(source_colormap, target_size)
            /\ HasDuplicate(Sample(source_colormap, target_size)))
        => (ret.status = "ok" /\ ret.annotation_enabled = FALSE)
    /\ Ok => (HasDuplicate(ret.palette) => ret.annotation_enabled = FALSE)
    /\ Ok => (ret.annotation_enabled => PairwiseDistinct(ret.palette))

C2_Witness ==
    /\ Ok
    /\ allow_annotation
    /\ HasDuplicate(ret.palette)
    /\ ret.palette[1] # ret.palette[2]
    /\ ret.annotation_enabled = FALSE

\* C3: when the sampled palette has pairwise distinct entries the returned
\* flag is the caller's; a continuous colormap sampled at 4 points without
\* repeats returns 4 distinct entries and the caller's flag.
C3_DistinctPassesFlagThrough ==
    /\ (Ok /\ PairwiseDistinct(ret.palette))
        => ret.annotation_enabled = allow_annotation
    /\ (Called /\ IsContinuous /\ target_size = 4
            /\ PairwiseDistinct(Sample(source_colormap, target_size)))
        => /\ ret.status = "ok"
           /\ Len(ret.palette) = 4
           /\ PairwiseDistinct(ret.palette)
           /\ ret.annotation_enabled = allow_annotation

C3_Witness ==
    /\ Ok
    /\ IsContinuous
    /\ target_size = 4
    /\ allow_annotation
    /\ Len(ret.palette) = 4
    /\ PairwiseDistinct(ret.palette)
    /\ \E i, j \in 1..4 : i # j /\ SubSeq(ret.palette[i], 1, 3) = SubSeq(ret.palette[j], 1, 3)
    /\ ret.annotation_enabled = TRUE

\* C4: the call fails with InvalidArgument, returning neither palette nor
\* flag, exactly when target_size <= 0 or target_size exceeds the native
\* slots of a discrete source.
C4_InvalidArgument ==
    Called =>
        /\ ret.status = "InvalidArgument"
            <=> (target_size <= 0
                    \/ (IsDiscrete /\ target_size > NativeSize(source_colormap)))
        /\ ret.status # "InvalidArgument" => ret.status = "ok"
        /\ ret.status = "InvalidArgument" => DOMAIN ret = {"status"}

C4_Witness ==
    /\ Called
    /\ IsDiscrete
    /\ target_size > NativeSize(source_colormap)
    /\ ret.status = "InvalidArgument"

IsScenario == Called /\ source_colormap = cmap_custom /\ target_size = 2 /\ allow_annotation

\* C5: [black, white, black, white] asked for 2 colours with annotation
\* returns 2 entries equal to each other and the flag FALSE.
C5_TwoDuplicateEntries ==
    IsScenario =>
        /\ ret.status = "ok"
        /\ Len(ret.palette) = 2
        /\ ret.palette[1] = ret.palette[2]
        /\ ret.annotation_enabled = FALSE

\* every colour of the sequence occurs at least twice
OnlyRepeated(colours) ==
    \A i \in 1..Len(colours) : \E j \in 1..Len(colours) : j # i /\ colours[j] = colours[i]

\* C6: a custom colormap of repeated colours only, asked for fewer colours
\* than it has slots with annotate = TRUE, comes back with as many slots as
\* the source (cmap.N == cmap_custom.N) and the annotation value FALSE.
C6_CustomCmapKeepsItsSlots ==
    (/\ Called
     /\ IsDiscrete
     /\ OnlyRepeated(source_colormap.colours)
     /\ target_size > 0
     /\ target_size < NativeSize(source_colormap)
     /\ allow_annotation)
        => /\ ret.status = "ok"
           /\ Len(ret.palette) = NativeSize(source_colormap)
           /\ ret.annotation_enabled = FALSE

C6_Witness ==
    /\ Called
    /\ source_colormap = cmap_custom
    /\ target_size = 2
    /\ allow_annotation
    /\ ret.status = "ok"
    /\ Len(ret.palette) = NativeSize(cmap_custom)
    /\ ret.annotation_enabled = FALSE

\* C7: with target_size equal to the native size of a discrete source the
\* palette is the source's entries, same positions, nothing changed,
\* dropped or merged.
C7_NativeSizeReturnsSource ==
    (Called /\ IsDiscrete /\ target_size = NativeSize(source_colormap))
        => /\ ret.status = "ok"
           /\ Len(ret.palette) = NativeSize(source_colormap)
           /\ \A i \in 1..NativeSize(source_colormap) :
                  ret.palette[i] = source_colormap.colours[i]

C7_Witness ==
    /\ Ok
    /\ IsDiscrete
    /\ target_size = NativeSize(source_colormap)
    /\ HasDuplicate(source_colormap.colours)
    /\ ret.palette = source_colormap.colours

C10_Reference(path, img) ==
    IF path = None THEN [kind |-> "data:image/png;base64,", of |-> bytesIO_to_base64(PngBuffer(img))]
    ELSE [kind |-> "file", of |-> path.text]

C10_Helper(name, img) ==
    (last = name /\ Bound(name)) =>
        /\ ret.err = NoError
        /\ IF args.path = None
           THEN ret.value = bytesIO_to_base64(PngBuffer(img))
           ELSE ret.value = EmptyString /\ args.path \in files

\* C10: once the helpers are defined, each of the three helpers, with no
\* path, returns the base64 text of its picture and, with a path, saves the picture there and returns the
\* empty string; _view_html inserts the data reference or the path; no
\* branch raises.
C10_OutputBranchesComplete ==
    /\ C10_Helper("_output_sprite", "stat_map")
    /\ C10_Helper("_output_sprite_bg", "bg")
    /\ C10_Helper("_output_cm", "colormap")
    /\ (last = "_view_html" /\ Bound("_view_html")) =>
        /\ ret.err = NoError
        /\ ret.value = [stat_map |-> C10_Reference(args.output_sprite, "stat_map"),
                        bg |-> C10_Reference(args.output_sprite_bg, "bg"),
                        cm |-> C10_Reference(args.output_cm, "colormap")]

====
